---- MODULE Spec2Model ----
(***************************************************************************)
(* Model of src/repairCars.cpp: Solution::check (the capacity predicate)   *)
(* and Solution::repairCars (the binary search over [0, 1e15]).            *)
(*                                                                         *)
(* Two specifications share the state variables.                           *)
(*   Spec    the search run on a scaled time ceiling (TimeCeiling), over   *)
(*           every rank list and requirement of a bounded input space,     *)
(*           invalid inputs included.  TLC's integers are 32 bits wide, so *)
(*           the ceiling 1e15 itself does not fit in one of them.          *)
(*   Spec64  the search run on the source's own ceiling, 1e15, with every  *)
(*           long long held as four limbs of 13 bits, over a handful of    *)
(*           concrete inputs.                                              *)
(***************************************************************************)
EXTENDS Integers, Sequences, FiniteSets, TLC

VARIABLES ranks, cars, s, e, ans, pc, result, iters

vars == <<ranks, cars, s, e, ans, pc, result, iters>>

(* ------------------------------ bounds --------------------------------- *)

\* Longest rank list of Spec.
MaxWorkers == 3
\* Largest rank of Spec.
MaxRank == 3
\* Largest requirement of Spec.
MaxCars == 18
\* Longest rank list of Spec that holds a zero or negative rank.
MaxBadWorkers == 2
\* The scaled stand-in of Spec for the search ceiling 1e15 of line 25.
TimeCeiling == 40

(* --------------------------- the input space --------------------------- *)

\* vector<int>: ranks may be zero or negative, the code checks nothing.
RankVals == (-1) .. MaxRank

\* The rank lists the specification asks for: non-empty, every rank positive.
ValidRankLists == UNION {[1 .. n -> 1 .. MaxRank] : n \in 1 .. MaxWorkers}

\* Rank lists of any content, the empty one included.
AnyRankLists == UNION {[1 .. n -> RankVals] : n \in 0 .. MaxBadWorkers}

RankLists == ValidRankLists \cup AnyRankLists

\* int cars: may be zero or negative, the code checks nothing.
CarVals == (-1) .. MaxCars

\* ans and result are sequences: empty while the variable holds no value
\* ("ll ans;" of line 27 has no initializer), <<v>> once it holds v.
Unset == << >>

\* What reading the uninitialized ans at line 42 can give: any long long.
Garbage == {-1, 0, TimeCeiling + 1}

(* ------------------------------- check --------------------------------- *)

\* C++ integer division truncates toward zero; a is never negative here.
TruncDiv(a, b) == IF b > 0 THEN a \div b ELSE -(a \div (-b))

RECURSIVE SqrtUp(_, _)
SqrtUp(q, k) == IF (k + 1) * (k + 1) > q THEN k ELSE SqrtUp(q, k + 1)

\* Mutant of ISqrt: the root rounded up instead of truncated.
ISqrtRoundUp(q) == IF SqrtUp(q, 0) * SqrtUp(q, 0) = q THEN SqrtUp(q, 0) ELSE SqrtUp(q, 0) + 1

\* (ll) sqrt((double) q) for q >= 0.  Every q below 2^53 converts to double
\* exactly, sqrt is correctly rounded, and for q < 2^52 the root of a
\* non-square lies further below the next integer than half an ulp, so the
\* truncated result is the integer square root.
ISqrt(q) == SqrtUp(q, 0)

\* Mutant of Capacity: the remainder time % rank where the code divides.
CapacityOfRemainder(time, rank) == SqrtUp(time % rank, 0)

\* Line 14: ll c = sqrt(time / nums[i]), for a rank that divides without
\* undefined behaviour.
Capacity(time, rank) == ISqrt(TruncDiv(time, rank))

\* Mutant of checkLoop: the loop bound is off by one and the last worker is
\* never counted (i < n - 1).
RECURSIVE checkLoopShort(_, _, _, _)
checkLoopShort(nums, req, time, i) ==
    IF i > Len(nums) - 1 THEN <<FALSE, req <= 0>>
    ELSE IF nums[i] = 0 THEN <<TRUE, FALSE>>
    ELSE IF TruncDiv(time, nums[i]) < 0 THEN <<TRUE, FALSE>>
    ELSE LET r2 == req - SqrtUp(TruncDiv(time, nums[i]), 0)
         IN  IF r2 <= 0 THEN <<FALSE, TRUE>>
             ELSE checkLoopShort(nums, r2, time, i + 1)

\* The loop of lines 12-19 from worker i on, req being the running
\* remainder: <<ub, value>>.  ub says that the run meets undefined behaviour
\* (a division by zero, or the conversion to long long of the NaN that sqrt
\* gives for a negative quotient) before it returns; value is what it
\* returns when it does not.
RECURSIVE checkLoop(_, _, _, _)
checkLoop(nums, req, time, i) ==
    IF i > Len(nums) THEN <<FALSE, req <= 0>>
    ELSE IF nums[i] = 0 THEN <<TRUE, FALSE>>
    ELSE IF TruncDiv(time, nums[i]) < 0 THEN <<TRUE, FALSE>>
    ELSE LET r2 == req - Capacity(time, nums[i])
         IN  IF r2 <= 0 THEN <<FALSE, TRUE>>
             ELSE checkLoop(nums, r2, time, i + 1)

\* bool check(nums, req, time), for a call without undefined behaviour.
check(nums, req, time) == checkLoop(nums, req, time, 1)[2]

\* The call check(nums, req, time) has undefined behaviour.
checkUB(nums, req, time) == checkLoop(nums, req, time, 1)[1]

\* What a call of check can hand back to repairCars: its value, or either
\* boolean after undefined behaviour.
checkOutcomes(nums, req, time) ==
    IF checkUB(nums, req, time) THEN BOOLEAN ELSE {check(nums, req, time)}

(* ----------------------------- repairCars ------------------------------ *)

\* Mutant of Mid: the probe is the low end of the window, a linear scan.
MidAtLow(lo, hi) == lo

\* Line 31: ll mid = (s + e) / 2.
Mid(lo, hi) == (lo + hi) \div 2

\* Mutant of NarrowHigh: e = mid - 2, which drops mid - 1 unexamined.
NarrowHighTooFar(mid) == mid - 2

\* Line 38: e = mid - 1.
NarrowHigh(mid) == mid - 1

\* Mutant of RaiseLow: s = mid + 2, which drops mid + 1 unexamined.
RaiseLowTooFar(mid) == mid + 2

\* Line 40: s = mid + 1.
RaiseLow(mid) == mid + 1

\* Lines 25-27: s = 0, e = the ceiling, ans uninitialized.
Init ==
    /\ ranks \in RankLists
    /\ cars \in CarVals
    /\ s = 0
    /\ e = TimeCeiling
    /\ ans = Unset
    /\ pc = "loop"
    /\ result = Unset
    /\ iters = 0

\* Mutant of Step: ans = mid is written before poss is tested, in both
\* branches.
StepRecordAlways ==
    /\ pc = "loop"
    /\ s <= e
    /\ \E poss \in checkOutcomes(ranks, cars, Mid(s, e)) :
          /\ ans' = <<Mid(s, e)>>
          /\ IF poss
             THEN e' = NarrowHigh(Mid(s, e)) /\ s' = s
             ELSE s' = RaiseLow(Mid(s, e)) /\ e' = e
    /\ iters' = iters + 1
    /\ UNCHANGED <<ranks, cars, pc, result>>

\* One iteration of the loop, lines 29-41.
Step ==
    /\ pc = "loop"
    /\ s <= e
    /\ \E poss \in checkOutcomes(ranks, cars, Mid(s, e)) :
          IF poss
          THEN /\ ans' = <<Mid(s, e)>>
               /\ e' = NarrowHigh(Mid(s, e))
               /\ s' = s
          ELSE /\ s' = RaiseLow(Mid(s, e))
               /\ UNCHANGED <<e, ans>>
    /\ iters' = iters + 1
    /\ UNCHANGED <<ranks, cars, pc, result>>

\* Line 33, when the call of check has undefined behaviour and the build
\* traps (SIGFPE on a division by zero): the program ends without a result.
Trap ==
    /\ pc = "loop"
    /\ s <= e
    /\ checkUB(ranks, cars, Mid(s, e))
    /\ pc' = "trapped"
    /\ UNCHANGED <<ranks, cars, s, e, ans, result, iters>>

\* Lines 29 and 42: the loop condition fails and ans is returned.  Reading
\* the uninitialized ans gives any value.
Return ==
    /\ pc = "loop"
    /\ s > e
    /\ pc' = "done"
    /\ result' \in (IF ans = Unset THEN {<<g>> : g \in Garbage} ELSE {ans})
    /\ UNCHANGED <<ranks, cars, s, e, ans, iters>>

Next == Step \/ Trap \/ Return

Spec == Init /\ [][Next]_vars

(* --------------- long long arithmetic on the real ceiling -------------- *)

\* A long long of Spec64 is <<w3, w2, w1, w0>>, worth
\* ((w3 * LimbBase + w2) * LimbBase + w1) * LimbBase + w0, with w2, w1, w0 in
\* 0 .. LimbBase - 1 and the sign carried by w3.  Four limbs of 13 bits hold
\* every value below 2^52; the search never leaves [-1, 2e15 + 1].
LimbBase == 2 ^ 13

\* Carries propagated from the lowest limb up.
WNorm(x) ==
    LET t0 == x[4]
        t1 == x[3] + (t0 \div LimbBase)
        t2 == x[2] + (t1 \div LimbBase)
        t3 == x[1] + (t2 \div LimbBase)
    IN  <<t3, t2 % LimbBase, t1 % LimbBase, t0 % LimbBase>>

\* The long long of an int.
WOfInt(n) == WNorm(<<0, 0, 0, n>>)

\* a + b.
WAdd(a, b) == WNorm(<<a[1] + b[1], a[2] + b[2], a[3] + b[3], a[4] + b[4]>>)

\* a + n for a small int n (mid + 1, mid - 1).
WAddInt(a, n) == WNorm(<<a[1], a[2], a[3], a[4] + n>>)

\* a * n for 0 <= n < 2^17.
WMulInt(a, n) == WNorm(<<a[1] * n, a[2] * n, a[3] * n, a[4] * n>>)

\* a <= b.
WLeq(a, b) ==
    \/ a[1] < b[1]
    \/ a[1] = b[1] /\ a[2] < b[2]
    \/ a[1] = b[1] /\ a[2] = b[2] /\ a[3] < b[3]
    \/ a[1] = b[1] /\ a[2] = b[2] /\ a[3] = b[3] /\ a[4] <= b[4]

\* a / d for a >= 0 and 0 < d < 2^18: long division, limb by limb.
WDivInt(a, d) ==
    LET q3 == a[1] \div d
        r3 == a[1] % d
        q2 == (r3 * LimbBase + a[2]) \div d
        r2 == (r3 * LimbBase + a[2]) % d
        q1 == (r2 * LimbBase + a[3]) \div d
        r1 == (r2 * LimbBase + a[3]) % d
        q0 == (r1 * LimbBase + a[4]) \div d
    IN  <<q3, q2, q1, q0>>

\* k * k for 0 <= k < 2^26.
WSquare(k) ==
    LET hi == k \div LimbBase
        lo == k % LimbBase
    IN  WNorm(<<0, hi * hi, 2 * hi * lo, lo * lo>>)

\* The largest k of lo .. hi - 1 with k * k <= q, given lo * lo <= q.
RECURSIVE WSqrtBetween(_, _, _)
WSqrtBetween(q, lo, hi) ==
    IF hi - lo <= 1 THEN lo
    ELSE LET m == (lo + hi) \div 2
         IN  IF WLeq(WSquare(m), q) THEN WSqrtBetween(q, m, hi)
             ELSE WSqrtBetween(q, lo, m)

\* Mutant of ISqrt64: the root rounded up instead of truncated.
ISqrt64RoundUp(q) ==
    LET k == WSqrtBetween(q, 0, 2 ^ 26)
    IN  IF WSquare(k) = q THEN k ELSE k + 1

\* (ll) sqrt((double) q) for 0 <= q < 2^52: the integer square root, an int
\* (see ISqrt).
ISqrt64(q) == WSqrtBetween(q, 0, 2 ^ 26)

\* Line 25: e = 1e15.
TIME_CEILING == WMulInt(WMulInt(WOfInt(100000), 100000), 100000)

\* Line 14 on a long long time, for a positive rank.
Capacity64(time, rank) == ISqrt64(WDivInt(time, rank))

\* Lines 12-19 on a long long time: <<ub, value>> as checkLoop gives them.
\* For a negative rank the quotient is zero while time < -rank and negative
\* (undefined behaviour) from there on.
RECURSIVE check64Loop(_, _, _, _)
check64Loop(nums, req, time, i) ==
    IF i > Len(nums) THEN <<FALSE, req <= 0>>
    ELSE IF nums[i] = 0 THEN <<TRUE, FALSE>>
    ELSE IF nums[i] < 0
    THEN IF WDivInt(time, -nums[i]) # WOfInt(0) THEN <<TRUE, FALSE>>
         ELSE IF req <= 0 THEN <<FALSE, TRUE>>
         ELSE check64Loop(nums, req, time, i + 1)
    ELSE LET r2 == req - Capacity64(time, nums[i])
         IN  IF r2 <= 0 THEN <<FALSE, TRUE>>
             ELSE check64Loop(nums, r2, time, i + 1)

\* bool check(nums, req, time) on a long long time.
check64(nums, req, time) == check64Loop(nums, req, time, 1)[2]

\* The call has undefined behaviour.
check64UB(nums, req, time) == check64Loop(nums, req, time, 1)[1]

check64Outcomes(nums, req, time) ==
    IF check64UB(nums, req, time) THEN BOOLEAN ELSE {check64(nums, req, time)}

\* Line 31 on long longs.
Mid64(lo, hi) == WDivInt(WAdd(lo, hi), 2)

\* What reading the uninitialized ans can give, as long longs.
Garbage64 == {WOfInt(-1), WOfInt(0), WAddInt(TIME_CEILING, 1)}

\* The calls Spec64 runs: the three examples of the specification's section
\* 8, the largest input of the problem's constraints (rank 100, 10^6 cars),
\* the single-worker inputs on either side of the ceiling, an input ten
\* times past the constraints, and three inputs the specification calls
\* invalid.
Inputs64 ==
    { <<(<<4, 2, 3, 1>>), 10>>,
      <<(<<1>>), 4>>,
      <<(<<5, 1, 8>>), 6>>,
      <<(<<100>>), 1000000>>,
      <<(<<100>>), 10000000>>,
      <<(<<1>>), 31622776>>,
      <<(<<1>>), 31622777>>,
      <<(<<1>>), 0>>,
      <<(<< >>), 1>>,
      <<(<<1, 0>>), 1>> }

Init64 ==
    /\ \E in \in Inputs64 : ranks = in[1] /\ cars = in[2]
    /\ s = WOfInt(0)
    /\ e = TIME_CEILING
    /\ ans = Unset
    /\ pc = "loop"
    /\ result = Unset
    /\ iters = 0

\* One iteration of the loop, lines 29-41, on long longs.
Step64 ==
    /\ pc = "loop"
    /\ WLeq(s, e)
    /\ \E poss \in check64Outcomes(ranks, cars, Mid64(s, e)) :
          IF poss
          THEN /\ ans' = <<Mid64(s, e)>>
               /\ e' = WAddInt(Mid64(s, e), -1)
               /\ s' = s
          ELSE /\ s' = WAddInt(Mid64(s, e), 1)
               /\ UNCHANGED <<e, ans>>
    /\ iters' = iters + 1
    /\ UNCHANGED <<ranks, cars, pc, result>>

\* Line 33 when the call has undefined behaviour and the build traps.
Trap64 ==
    /\ pc = "loop"
    /\ WLeq(s, e)
    /\ check64UB(ranks, cars, Mid64(s, e))
    /\ pc' = "trapped"
    /\ UNCHANGED <<ranks, cars, s, e, ans, result, iters>>

\* Lines 29 and 42 on long longs.
Return64 ==
    /\ pc = "loop"
    /\ ~WLeq(s, e)
    /\ pc' = "done"
    /\ result' \in (IF ans = Unset THEN {<<g>> : g \in Garbage64} ELSE {ans})
    /\ UNCHANGED <<ranks, cars, s, e, ans, iters>>

Next64 == Step64 \/ Trap64 \/ Return64

\* repairCars on the source's own ceiling.
Spec64 == Init64 /\ [][Next64]_vars

\* The program runs to its end: a sequential program that can take a step
\* takes it.
LiveSpec == Init /\ [][Next]_vars /\ WF_vars(Next)

(* ------------------------- terms of the claims ------------------------- *)

\* The inputs the specification calls valid: a non-empty list of positive
\* ranks and a requirement of at least 1.
ValidInput ==
    /\ Len(ranks) >= 1
    /\ \A i \in 1 .. Len(ranks) : ranks[i] >= 1
    /\ cars >= 1

\* The candidate times of the search.
Times == 0 .. TimeCeiling

\* floor(sqrt(q)) by its defining property.
FloorSqrt(q) == CHOOSE k \in 0 .. q : k * k <= q /\ (k + 1) * (k + 1) > q

\* The summed capacity of the first n workers at time t:
\* sum of floor(sqrt(floor(t / rank))).
RECURSIVE SumCapacity(_, _, _)
SumCapacity(nums, t, n) ==
    IF n = 0 THEN 0
    ELSE SumCapacity(nums, t, n - 1) + FloorSqrt(t \div nums[n])

TotalCapacity(nums, t) == SumCapacity(nums, t, Len(nums))

RECURSIVE CeilLog2From(_, _, _)
CeilLog2From(n, k, pow) == IF pow >= n THEN k ELSE CeilLog2From(n, k + 1, 2 * pow)

\* ceil(log2(n)) for n >= 1.
CeilLog2(n) == CeilLog2From(n, 0, 1)

(* ------------------------------- claims -------------------------------- *)

\* C1: on valid input for which check holds at the ceiling, repairCars
\* returns the smallest time T of [0, ceiling] at which check is true: check
\* holds at T, fails at T-1 when T > 0, and fails at every time below T.
C1_ReturnsThreshold ==
    (pc = "done" /\ ValidInput /\ check(ranks, cars, TimeCeiling)) =>
        /\ result # Unset
        /\ result[1] \in Times
        /\ check(ranks, cars, result[1])
        /\ (result[1] > 0 => ~check(ranks, cars, result[1] - 1))
        /\ \A t \in 0 .. (result[1] - 1) : ~check(ranks, cars, t)

\* C1 witness: a finished run on valid input of several workers whose
\* threshold lies strictly inside the window.
C1_Witness ==
    /\ pc = "done" /\ ValidInput /\ check(ranks, cars, TimeCeiling)
    /\ Len(ranks) >= 2
    /\ result # Unset /\ result[1] > 1 /\ result[1] < TimeCeiling

\* C2: check is monotone in time: on valid input, if check holds at t it
\* holds at every later t'.  (holds tabulates check over the times once.)
C2_Monotone ==
    ValidInput =>
        LET holds == [t \in Times |-> check(ranks, cars, t)]
        IN  /\ holds \in [Times -> BOOLEAN]
            /\ \A t \in Times : \A t2 \in t .. TimeCeiling :
                  holds[t] => holds[t2]

\* C2 witness: a finished search on valid input where check is false at
\* some time and true at a later one, so the implication is not vacuous.
C2_Witness ==
    /\ pc = "done" /\ ValidInput /\ Len(ranks) >= 2
    /\ \E t \in Times : \E t2 \in (t + 1) .. TimeCeiling :
          ~check(ranks, cars, t) /\ check(ranks, cars, t2)
    /\ \E t \in Times : check(ranks, cars, t) /\ t < TimeCeiling

\* C3: on an empty rank list, a rank <= 0 or a requirement <= 0, repairCars
\* reports InvalidArgument before the search begins and never returns a time:
\* no iteration of the search runs and no value is returned.
C3_InvalidInputRejected ==
    ~ValidInput => (iters = 0 /\ pc # "done" /\ result = Unset)

\* C4: the ceiling 1e15 is large enough that check holds at it for every
\* valid input, so that a finished search has recorded a candidate in ans and
\* returns it, never the unassigned ans.
C4_CeilingSuffices ==
    (pc = "done" /\ ValidInput) =>
        /\ check64(ranks, cars, TIME_CEILING)
        /\ ans # Unset
        /\ result = ans

\* C5: repairCars([4, 2, 3, 1], 10) returns 16 under the ceiling 1e15; the
\* capacities floor(sqrt(floor(t / rank))) are 2, 2, 2, 4 at time 16, which
\* meets 10, and 1, 2, 2, 3 at time 15, which does not.
C5_ReferenceCase ==
    (pc = "done" /\ ranks = <<4, 2, 3, 1>> /\ cars = 10) =>
        /\ result = <<WOfInt(16)>>
        /\ [i \in 1 .. 4 |-> Capacity64(result[1], ranks[i])] = <<2, 2, 2, 4>>
        /\ [i \in 1 .. 4 |-> Capacity64(WAddInt(result[1], -1), ranks[i])]
              = <<1, 2, 2, 3>>

\* C5 witness: the call on [4, 2, 3, 1] and 10 has run its search from the
\* window [0, 1e15] to the end and returned.
C5_Witness ==
    /\ pc = "done" /\ ranks = <<4, 2, 3, 1>> /\ cars = 10
    /\ ans = <<WOfInt(16)>> /\ result = ans /\ iters >= 40

\* C6: a single worker of rank r >= 1 and a requirement n >= 1 with r*n*n
\* within the ceiling: repairCars returns exactly r*n*n.
C6_SingleWorker ==
    (/\ pc = "done" /\ Len(ranks) = 1 /\ ranks[1] >= 1 /\ cars >= 1
     /\ ranks[1] * cars * cars <= TimeCeiling) =>
        result = <<ranks[1] * cars * cars>>

\* C6 witness: the run of rank 1 and requirement 4 has returned 16, the
\* capacity at time 15 being 3.
C6_Witness ==
    /\ pc = "done" /\ ranks = <<1>> /\ cars = 4 /\ result = <<16>>
    /\ Capacity(15, 1) = 3

\* C7: on valid ranks, for every time t of [0, ceiling] whose summed capacity
\* C(t) is >= 1, repairCars(ranks, C(t)) returns a time T <= t.
C7_Boundary ==
    (pc = "done" /\ ValidInput) =>
        \A t \in Times :
            TotalCapacity(ranks, t) = cars =>
                (ans # Unset /\ result = ans /\ result[1] <= t)

\* C7 witness: a finished run whose requirement is the summed capacity of
\* several workers at two different times, the result being the earlier.
C7_Witness ==
    /\ pc = "done" /\ ValidInput /\ Len(ranks) >= 2
    /\ \E t \in Times : TotalCapacity(ranks, t) = cars /\ result = <<t>>
    /\ \E t \in Times : TotalCapacity(ranks, t) = cars /\ result[1] < t

\* C8: at every evaluation of the loop condition on valid input, check is
\* false at every time of [0, s-1] and true at every time of [e+1, ceiling],
\* and once ans is assigned, ans = e+1 and check holds at ans.
C8_Bracket ==
    (pc \in {"loop", "done"} /\ ValidInput) =>
        /\ \A t \in 0 .. (s - 1) : ~check(ranks, cars, t)
        /\ \A t \in (e + 1) .. TimeCeiling : check(ranks, cars, t)
        /\ (ans # Unset => (ans[1] = e + 1 /\ check(ranks, cars, ans[1])))

\* C8 witness: a loop head on valid input with both ends of the window
\* moved, ans assigned, and the window still non-empty.
C8_Witness ==
    /\ pc = "loop" /\ ValidInput
    /\ s > 0 /\ e < TimeCeiling /\ s <= e /\ ans # Unset

\* C9: the loop terminates, and exactly when s > e; every iteration probes a
\* mid of [s, e], strictly raises s or strictly lowers e, and at least halves
\* the width e - s + 1; there are at most ceil(log2(ceiling + 2)) iterations.
C9_Terminates ==
    /\ <>(pc # "loop")
    /\ [](pc = "done" => s > e)
    /\ [](iters <= CeilLog2(TimeCeiling + 2))
    /\ [][iters' # iters =>
            /\ s <= e
            /\ s <= Mid(s, e) /\ Mid(s, e) <= e
            /\ (s' > s \/ e' < e)
            /\ s' >= s /\ e' <= e
            /\ 2 * (e' - s' + 1) <= e - s + 1]_vars

\* C9 witness: a finished run on valid input that took exactly
\* ceil(log2(ceiling + 2)) iterations: the bound is reached.
C9_Witness ==
    /\ pc = "done" /\ ValidInput /\ s > e
    /\ iters = CeilLog2(TimeCeiling + 2)

\* C10: the early exit of check does not change its result: on valid input,
\* check(ranks, requirement, t) is true exactly when the capacity summed over
\* all workers is >= requirement.
C10_EarlyExit ==
    ValidInput =>
        \A t \in Times :
            check(ranks, cars, t) <=> (TotalCapacity(ranks, t) >= cars)

\* C10 witness: valid input of several workers where, at some time, the
\* first worker alone meets the requirement (the early exit is taken) and,
\* at another, all workers together do not.
C10_Witness ==
    /\ pc = "done" /\ ValidInput /\ Len(ranks) >= 2
    /\ \E t \in Times : Capacity(t, ranks[1]) >= cars
    /\ \E t \in Times : t > 0 /\ TotalCapacity(ranks, t) < cars

====
